---- MODULE Spec2Model ----
(***************************************************************************)
(* A model of weak_list.rs: an intrusive doubly-linked list of weak        *)
(* references (WeakList) whose entries are owned by reference-counted      *)
(* Handles.  Node addresses are 1..MaxNodes; a cell that holds a NodePtr   *)
(* is either the list's boxed head cell or the next field of a node.       *)
(***************************************************************************)
EXTENDS Integers, Sequences, FiniteSets, TLC

\* ------------------------------------------------------------------ bounds
MaxNodes == 3
MaxCount == 2

Nodes == 1..MaxNodes

\* NodePtr<T> = Option<NonNull<Node<T>>>: None is 0, Some(n) is n.
None == 0
\* Option<NonNull<NodePtr<T>>>: the unset back-pointer.
NoCell == -1
\* The address of the boxed head cell; the next cell of node n is n.
HeadCell == 0

\* What an access to freed storage may do: act on the stale memory, or abort.
UBOutcomes == {"lands", "abort"}

VARIABLES
    head,          \* contents of the head cell (stale once the Box is freed)
    listLive,      \* the WeakList (its head Box) has not been destroyed
    alloc,         \* per node address: "unused", "live" or "freed"
    value,         \* Node.value
    strong_count,  \* Node.strong_count
    prev_next,     \* Node.prev_next
    next,          \* Node.next
    destroyed,     \* per node: how many times the value's destructor ran
    uaf,           \* some freed storage has been read or written
    crashed,       \* the process aborted on an access to freed storage
    aborted,       \* the operation the process aborted in ("" when none)
    handles,       \* per node: Handles the caller holds outside a Vec
    snap,          \* the Vec<Handle> the caller holds (upgrade_all/take_all)
    moved,         \* nodes whose value try_unwrap handed to the caller
    pushed,        \* per node: the value new_elem was given
    order          \* nodes pushed and not yet removed, most recent first

heapVars == <<head, listLive, alloc, value, strong_count, prev_next, next,
              destroyed, uaf, crashed>>
vars == <<head, listLive, alloc, value, strong_count, prev_next, next,
          destroyed, uaf, crashed, aborted, handles, snap, moved, pushed,
          order>>

\* The memory as one record, so that the code's functions are operators on it.
Heap ==
    [head |-> head, listLive |-> listLive, alloc |-> alloc, value |-> value,
     strong_count |-> strong_count, prev_next |-> prev_next, next |-> next,
     destroyed |-> destroyed, uaf |-> uaf, crashed |-> crashed]

Commit(H) ==
    /\ head' = H.head
    /\ listLive' = H.listLive
    /\ alloc' = H.alloc
    /\ value' = H.value
    /\ strong_count' = H.strong_count
    /\ prev_next' = H.prev_next
    /\ next' = H.next
    /\ destroyed' = H.destroyed
    /\ uaf' = H.uaf
    /\ crashed' = H.crashed

\* ------------------------------------------------------- memory accesses
\* An access to node n's storage: fine when n is allocated, otherwise a
\* use after free, which either aborts or goes on with the stale memory.
TouchNode(H, n, o) ==
    IF H.alloc[n] = "live" THEN H
    ELSE [H EXCEPT !.uaf = TRUE, !.crashed = (o = "abort")]

CellLive(H, c) ==
    IF c = HeadCell THEN H.listLive ELSE H.alloc[c] = "live"

\* *cell = v
WriteCell(H, c, v, o) ==
    LET H1 == IF CellLive(H, c) THEN H
              ELSE [H EXCEPT !.uaf = TRUE, !.crashed = (o = "abort")]
    IN  IF H1.crashed THEN H1
        ELSE IF c = HeadCell THEN [H1 EXCEPT !.head = v]
        ELSE [H1 EXCEPT !.next[c] = v]

\* ------------------------------------------------------------------ Node
\* new_before that forgets to repoint the old first node's prev_next.
new_before_no_backlink(H, n, next_ptr, v, o) ==
    [H EXCEPT !.alloc[n] = "live",
              !.value[n] = v,
              !.strong_count[n] = 0,
              !.prev_next[n] = NoCell,
              !.next[n] = next_ptr]

\* Node::new_before at the fresh address n.
new_before(H, n, next_ptr, v, o) ==
    LET H1 == [H EXCEPT !.alloc[n] = "live",
                        !.value[n] = v,
                        !.strong_count[n] = 0,
                        !.prev_next[n] = NoCell,
                        !.next[n] = next_ptr]
    IN  IF next_ptr = None THEN H1
        ELSE LET H2 == TouchNode(H1, next_ptr, o)
             IN  IF H2.crashed THEN H2
                 ELSE [H2 EXCEPT !.prev_next[next_ptr] = n]

\* unlink that reads prev_next with get() instead of take().
unlink_keeps_prev_next(H, n, o) ==
    IF H.prev_next[n] = NoCell THEN H
    ELSE LET p  == H.prev_next[n]
             H2 == WriteCell(H, p, H.next[n], o)
             nx == H2.next[n]
         IN  IF H2.crashed \/ nx = None THEN H2
             ELSE LET H3 == TouchNode(H2, nx, o)
                  IN  IF H3.crashed THEN H3
                      ELSE [H3 EXCEPT !.prev_next[nx] = p]

\* unlink that takes the node's next field (reads and clears it) as it
\* takes prev_next.
unlink_takes_next(H, n, o) ==
    IF H.prev_next[n] = NoCell THEN H
    ELSE LET p  == H.prev_next[n]
             nx == H.next[n]
             H1 == [H EXCEPT !.prev_next[n] = NoCell, !.next[n] = None]
             H2 == WriteCell(H1, p, nx, o)
         IN  IF H2.crashed \/ nx = None THEN H2
             ELSE LET H3 == TouchNode(H2, nx, o)
                  IN  IF H3.crashed THEN H3
                      ELSE [H3 EXCEPT !.prev_next[nx] = p]

\* unlink that writes the predecessor's cell but leaves the successor's
\* prev_next naming the cell of the node that left.
unlink_no_backlink(H, n, o) ==
    IF H.prev_next[n] = NoCell THEN H
    ELSE LET p  == H.prev_next[n]
             H1 == [H EXCEPT !.prev_next[n] = NoCell]
         IN  WriteCell(H1, p, H1.next[n], o)

\* Node::unlink on node n.  The node's own next field is left as it is.
unlink(H, n, o) ==
    IF H.prev_next[n] = NoCell THEN H
    ELSE LET p  == H.prev_next[n]
             H1 == [H EXCEPT !.prev_next[n] = NoCell]
             H2 == WriteCell(H1, p, H1.next[n], o)
             nx == H2.next[n]
         IN  IF H2.crashed \/ nx = None THEN H2
             ELSE LET H3 == TouchNode(H2, nx, o)
                  IN  IF H3.crashed THEN H3
                      ELSE [H3 EXCEPT !.prev_next[nx] = p]

\* drop(Box::from_raw(node)): the value's destructor runs, the node is freed.
drop_box(H, n) ==
    [H EXCEPT !.alloc[n] = "freed", !.destroyed[n] = @ + 1]

\* Box::from_raw(node) whose value is moved out: the node is freed and the
\* destructor does not run.
take_box(H, n) ==
    [H EXCEPT !.alloc[n] = "freed"]

\* ---------------------------------------------------------------- Handle
from_raw_node(H, n, o) ==
    LET H1 == TouchNode(H, n, o)
    IN  IF H1.crashed THEN H1
        ELSE [H1 EXCEPT !.strong_count[n] = @ + 1]

detach(H, n, o) ==
    LET H1 == TouchNode(H, n, o)
    IN  IF H1.crashed THEN H1 ELSE unlink(H1, n, o)

\* The heap after Handle::try_unwrap; TryUnwrapOk tells which arm was taken.
TryUnwrapOk(H, n) == H.strong_count[n] = 1

try_unwrap(H, n, o) ==
    LET H1 == detach(H, n, o)
    IN  IF H1.crashed THEN H1
        ELSE IF TryUnwrapOk(H1, n) THEN take_box(H1, n)
        ELSE H1

\* clone that copies the pointer without counting the new Handle.
clone_no_increment(H, n, o) ==
    TouchNode(H, n, o)

\* impl Clone for Handle: one more Handle of node n.
clone(H, n, o) ==
    LET H1 == TouchNode(H, n, o)
    IN  IF H1.crashed THEN H1
        ELSE [H1 EXCEPT !.strong_count[n] = @ + 1]

\* Deref: the value a Handle to node n reads (0 when the storage is gone).
deref(H, n) ==
    IF H.alloc[n] = "live" /\ ~H.crashed THEN H.value[n] ELSE 0

\* drop whose last-Handle arm frees the node without detaching it first.
drop_no_detach(H, n, o) ==
    LET H1 == TouchNode(H, n, o)
    IN  IF H1.crashed THEN H1
        ELSE IF H1.strong_count[n] = 1 THEN drop_box(H1, n)
             ELSE [H1 EXCEPT !.strong_count[n] = @ - 1]

\* impl Drop for Handle
drop(H, n, o) ==
    LET H1 == TouchNode(H, n, o)
    IN  IF H1.crashed THEN H1
        ELSE IF H1.strong_count[n] = 1
             THEN LET H2 == detach(H1, n, o)
                  IN  IF H2.crashed THEN H2 ELSE drop_box(H2, n)
             ELSE [H1 EXCEPT !.strong_count[n] = @ - 1]

\* Dropping a Vec<Handle>: its elements are dropped front to back.
RECURSIVE drop_vec(_, _, _)
drop_vec(H, v, o) ==
    IF v = <<>> \/ H.crashed THEN H
    ELSE drop_vec(drop(H, Head(v), o), Tail(v), o)

\* -------------------------------------------------------------- WeakList
new_elem(H, n, v, o) ==
    LET old_first == H.head
        H1 == new_before(H, n, old_first, v, o)
    IN  IF H1.crashed THEN H1
        ELSE from_raw_node([H1 EXCEPT !.prev_next[n] = HeadCell,
                                      !.head = n], n, o)

\* The loop of upgrade_all from cur on, as [heap, v].  A chain that never
\* ends makes the Vec grow until the allocation fails: the process aborts.
RECURSIVE upgrade_walk(_, _, _, _, _)
upgrade_walk(H, cur, v, fuel, o) ==
    IF cur = None \/ H.crashed THEN [heap |-> H, v |-> v]
    ELSE IF fuel = 0 THEN [heap |-> [H EXCEPT !.crashed = TRUE], v |-> v]
    ELSE LET H1 == from_raw_node(H, cur, o)
         IN  upgrade_walk(H1, H1.next[cur], Append(v, cur), fuel - 1, o)

RECURSIVE detach_each(_, _, _)
detach_each(H, v, o) ==
    IF v = <<>> \/ H.crashed THEN H
    ELSE detach_each(detach(H, Head(v), o), Tail(v), o)

\* upgrade_all that detaches what it visits, as take_all does.
upgrade_all_detaching(H, o) ==
    LET r == upgrade_walk(H, H.head, <<>>, MaxNodes, o)
    IN  [heap |-> detach_each(r.heap, r.v, o), v |-> r.v]

upgrade_all(H, o) ==
    upgrade_walk(H, H.head, <<>>, MaxNodes, o)

\* take_all that forgets to detach what it returns.
take_all_keeps_links(H, o) ==
    upgrade_all(H, o)

take_all(H, o) ==
    LET r == upgrade_all(H, o)
    IN  [heap |-> detach_each(r.heap, r.v, o), v |-> r.v]

\* clear that walks the chain without taking Handles of its own, then
\* detaches and drops what it visited.
clear_without_upgrade(H, o) ==
    LET v == upgrade_all(H, o).v
    IN  drop_vec(detach_each(H, v, o), v, o)

clear(H, o) ==
    LET r == take_all(H, o)
    IN  drop_vec(r.heap, r.v, o)

\* The WeakList goes out of scope: it has no Drop of its own, so the only
\* thing that happens is that the head Box is freed.
drop_list(H) ==
    [H EXCEPT !.listLive = FALSE]

\* --------------------------------------------------- the caller's handles
Occ(v, n) == Cardinality({i \in DOMAIN v : v[i] = n})

\* The number of live Handles to node n.
HandleCount(n) == handles[n] + Occ(snap, n)

Remove(s, n) == SelectSeq(s, LAMBDA x : x # n)

\* The step aborted in the middle of the operation: nothing is returned.
Aborted(op) ==
    /\ aborted' = op
    /\ UNCHANGED <<handles, snap, moved, pushed, order>>

Returned == UNCHANGED aborted

Unused == {n \in Nodes : alloc[n] = "unused"}

\* ---------------------------------------------------------------- actions
Init ==
    /\ head = None
    /\ listLive = TRUE
    /\ alloc = [n \in Nodes |-> "unused"]
    /\ value = [n \in Nodes |-> 0]
    /\ strong_count = [n \in Nodes |-> 0]
    /\ prev_next = [n \in Nodes |-> NoCell]
    /\ next = [n \in Nodes |-> None]
    /\ destroyed = [n \in Nodes |-> 0]
    /\ uaf = FALSE
    /\ crashed = FALSE
    /\ aborted = ""
    /\ handles = [n \in Nodes |-> 0]
    /\ snap = <<>>
    /\ moved = {}
    /\ pushed = [n \in Nodes |-> 0]
    /\ order = <<>>

\* let h = list.new_elem(v);  The caller numbers its values as
\* tests::basic_test does (new_s(1), new_s(2), ...), so the value of the
\* k-th push is k, which is also the address the k-th node gets.
NewElem(o) ==
    /\ ~crashed /\ listLive /\ Unused # {}
    /\ LET n == CHOOSE m \in Unused : \A k \in Unused : m <= k
           v == n
           H == new_elem(Heap, n, v, o)
       IN  /\ Commit(H)
           /\ IF H.crashed THEN Aborted("new_elem")
              ELSE /\ Returned
                   /\ handles' = [handles EXCEPT ![n] = 1]
                   /\ pushed' = [pushed EXCEPT ![n] = v]
                   /\ order' = <<n>> \o order
                   /\ UNCHANGED <<snap, moved>>

\* list.new_elem(v);  The returned Handle is a temporary, dropped at the end
\* of the statement.
NewElemDiscard(o) ==
    /\ ~crashed /\ listLive /\ Unused # {}
    /\ LET n == CHOOSE m \in Unused : \A k \in Unused : m <= k
           v == n
           H == drop(new_elem(Heap, n, v, o), n, o)
       IN  /\ Commit(H)
           /\ IF H.crashed THEN Aborted("new_elem")
              ELSE /\ Returned
                   /\ pushed' = [pushed EXCEPT ![n] = v]
                   /\ UNCHANGED <<handles, snap, moved, order>>

\* Handle::clone(&h), h any Handle the caller holds.
Clone(n, o) ==
    /\ ~crashed /\ HandleCount(n) > 0 /\ strong_count[n] < MaxCount
    /\ LET H == clone(Heap, n, o)
       IN  /\ Commit(H)
           /\ IF H.crashed THEN Aborted("clone")
              ELSE /\ Returned
                   /\ handles' = [handles EXCEPT ![n] = @ + 1]
                   /\ UNCHANGED <<snap, moved, pushed, order>>

\* Handle::detach(&h)
Detach(n, o) ==
    /\ ~crashed /\ HandleCount(n) > 0
    /\ LET H == detach(Heap, n, o)
       IN  /\ Commit(H)
           /\ IF H.crashed THEN Aborted("detach")
              ELSE /\ Returned
                   /\ order' = Remove(order, n)
                   /\ UNCHANGED <<handles, snap, moved, pushed>>

\* drop(h)
Drop(n, o) ==
    /\ ~crashed /\ handles[n] > 0
    /\ LET H == drop(Heap, n, o)
       IN  /\ Commit(H)
           /\ IF H.crashed THEN Aborted("drop")
              ELSE /\ Returned
                   /\ handles' = [handles EXCEPT ![n] = @ - 1]
                   /\ order' = IF HandleCount(n) = 1 THEN Remove(order, n)
                               ELSE order
                   /\ UNCHANGED <<snap, moved, pushed>>

\* Handle::try_unwrap(h): Ok(value) moves the value to the caller, Err(h)
\* gives the Handle back.
TryUnwrap(n, o) ==
    /\ ~crashed /\ handles[n] > 0
    /\ LET H == try_unwrap(Heap, n, o)
       IN  /\ Commit(H)
           /\ IF H.crashed THEN Aborted("try_unwrap")
              ELSE /\ Returned
                   /\ IF H.alloc[n] = "freed"
                      THEN /\ handles' = [handles EXCEPT ![n] = @ - 1]
                           /\ moved' = moved \cup {n}
                      ELSE /\ UNCHANGED <<handles, moved>>
                   /\ order' = Remove(order, n)
                   /\ UNCHANGED <<snap, pushed>>

\* The caller drops a value it got from try_unwrap.
DropValue(n) ==
    /\ ~crashed /\ n \in moved
    /\ moved' = moved \ {n}
    /\ destroyed' = [destroyed EXCEPT ![n] = @ + 1]
    /\ UNCHANGED <<head, listLive, alloc, value, strong_count, prev_next,
                   next, uaf, crashed, aborted, handles, snap, pushed,
                   order>>

\* let snap = list.upgrade_all();
UpgradeAll(o) ==
    /\ ~crashed /\ listLive /\ snap = <<>>
    /\ LET r == upgrade_all(Heap, o)
       IN  /\ \A n \in Nodes : r.heap.strong_count[n] <= MaxCount
           /\ Commit(r.heap)
           /\ IF r.heap.crashed THEN Aborted("upgrade_all")
              ELSE /\ Returned
                   /\ snap' = r.v
                   /\ UNCHANGED <<handles, moved, pushed, order>>

\* let snap = list.take_all();
TakeAll(o) ==
    /\ ~crashed /\ listLive /\ snap = <<>>
    /\ LET r == take_all(Heap, o)
       IN  /\ \A n \in Nodes : r.heap.strong_count[n] <= MaxCount
           /\ Commit(r.heap)
           /\ IF r.heap.crashed THEN Aborted("take_all")
              ELSE /\ Returned
                   /\ snap' = r.v
                   /\ order' = <<>>
                   /\ UNCHANGED <<handles, moved, pushed>>

\* list.clear();
Clear(o) ==
    /\ ~crashed /\ listLive
    /\ \A n \in Nodes : upgrade_all(Heap, o).heap.strong_count[n] <= MaxCount
    /\ LET H == clear(Heap, o)
       IN  /\ Commit(H)
           /\ IF H.crashed THEN Aborted("clear")
              ELSE /\ Returned
                   /\ order' = <<>>
                   /\ UNCHANGED <<handles, snap, moved, pushed>>

\* drop(snap)
DropSnap(o) ==
    /\ ~crashed /\ snap # <<>>
    /\ LET H == drop_vec(Heap, snap, o)
       IN  /\ Commit(H)
           /\ IF H.crashed THEN Aborted("drop_snap")
              ELSE /\ Returned
                   /\ snap' = <<>>
                   /\ order' = SelectSeq(order, LAMBDA x :
                                  ~(Occ(snap, x) > 0 /\ HandleCount(x) = 1))
                   /\ UNCHANGED <<handles, moved, pushed>>

\* drop(list)
ListDrop ==
    /\ ~crashed /\ listLive
    /\ Commit(drop_list(Heap))
    /\ UNCHANGED <<aborted, handles, snap, moved, pushed, order>>

Next ==
    \/ \E o \in UBOutcomes : NewElem(o)
    \/ \E o \in UBOutcomes : NewElemDiscard(o)
    \/ \E n \in Nodes, o \in UBOutcomes : Clone(n, o)
    \/ \E n \in Nodes, o \in UBOutcomes : TryUnwrap(n, o)
    \/ \E n \in Nodes, o \in UBOutcomes : Drop(n, o)
    \/ \E n \in Nodes, o \in UBOutcomes : Detach(n, o)
    \/ \E n \in Nodes : DropValue(n)
    \/ \E o \in UBOutcomes : UpgradeAll(o)
    \/ \E o \in UBOutcomes : TakeAll(o)
    \/ \E o \in UBOutcomes : Clear(o)
    \/ \E o \in UBOutcomes : DropSnap(o)
    \/ ListDrop

Spec == Init /\ [][Next]_vars

\* ------------------------------------------------------------ properties
InSeq(s, n) == \E i \in DOMAIN s : s[i] = n

\* What upgrade_all() returns in the current state.
Snapshot == upgrade_all(Heap, "lands").v

Linked(n) == alloc[n] = "live" /\ prev_next[n] # NoCell

\* C1: in any reachable state, dropping the last Handle of a node
\* (strong_count is 1 at the drop) removes the node from the chain and
\* destroys its value exactly once in that same step; the value is never
\* destroyed a second time.
C1_LastDropFrees ==
    [][\A n \in Nodes, o \in UBOutcomes :
        (Drop(n, o) /\ strong_count[n] = 1) =>
            /\ alloc'[n] = "freed"
            /\ prev_next'[n] = NoCell
            /\ destroyed'[n] = 1
            /\ \A m \in Nodes : Linked(m)' => next'[m] # n
            /\ listLive' => ~InSeq(Snapshot', n)]_vars

\* C2: while the list is alive, upgrade_all() returns exactly the nodes that
\* were pushed and neither detached nor freed, one Handle each, the most
\* recently pushed first, whatever was removed from the head, the middle or
\* the tail.
C2_SnapshotOrder ==
    (listLive /\ ~crashed) => Snapshot = order

C2_Witness ==
    /\ listLive
    /\ order = <<3, 1>>
    /\ Snapshot = <<3, 1>>
    /\ alloc[2] = "freed"

\* C3: once the list is destroyed, in whatever state, every surviving Handle
\* still dereferences to its original value, no value has been destroyed
\* twice, and no operation on the Handles has read or written freed storage
\* (in particular the destroyed list's head cell).
C3_HandlesOutliveList ==
    ~listLive =>
        /\ ~uaf
        /\ ~crashed
        /\ \A n \in Nodes : HandleCount(n) > 0 => deref(Heap, n) = pushed[n]
        /\ \A n \in Nodes : destroyed[n] <= 1

\* C4: once the list is destroyed, every surviving node that belonged to it
\* is Unlinked (its prev_next is unset) and none of them has been freed by
\* the destruction.
C4_ListDropUnlinks ==
    ~listLive =>
        \A n \in Nodes :
            HandleCount(n) > 0 => (alloc[n] = "live" /\ prev_next[n] = NoCell)

\* C5: try_unwrap on a Handle whose node has strong_count 1 returns the
\* value, consumes the Handle, removes the node from the chain, frees it
\* without running the destructor, and the value is destroyed only when the
\* caller drops it, never twice.
C5_TryUnwrapOk ==
    [][/\ \A n \in Nodes, o \in UBOutcomes :
            (TryUnwrap(n, o) /\ strong_count[n] = 1) =>
                /\ n \in moved'
                /\ handles'[n] = handles[n] - 1
                /\ alloc'[n] = "freed"
                /\ prev_next'[n] = NoCell
                /\ destroyed'[n] = 0
                /\ \A m \in Nodes : Linked(m)' => next'[m] # n
                /\ listLive' => ~InSeq(Snapshot', n)
       /\ \A n \in Nodes : DropValue(n) => destroyed'[n] = 1]_vars

\* C6: try_unwrap on a Handle whose node has strong_count > 1 returns the
\* same Handle: no strong_count changes, no value is destroyed, the value
\* stays accessible through every Handle, and the node is Unlinked and
\* absent from later upgrade_all() results.
C6_TryUnwrapErr ==
    [][\A n \in Nodes, o \in UBOutcomes :
        (TryUnwrap(n, o) /\ strong_count[n] > 1) =>
            /\ aborted' = ""
            /\ handles' = handles
            /\ moved' = moved
            /\ strong_count' = strong_count
            /\ destroyed' = destroyed
            /\ alloc' = alloc
            /\ deref(Heap', n) = pushed[n]
            /\ prev_next'[n] = NoCell
            /\ listLive' => ~InSeq(Snapshot', n)]_vars

\* C7: when try_unwrap fails, the Handle is returned with nothing happened:
\* the chain, every node's link fields and every strong_count are the same
\* after the call as before it.
C7_TryUnwrapErrNoEffect ==
    [][\A n \in Nodes, o \in UBOutcomes :
        (TryUnwrap(n, o) /\ strong_count[n] > 1) =>
            /\ head' = head
            /\ next' = next
            /\ prev_next' = prev_next
            /\ strong_count' = strong_count
            /\ Snapshot' = Snapshot]_vars

\* C8: detach on a linked node removes exactly that node from the chain and
\* nothing else: the other linked nodes keep their order, no strong_count
\* changes, no value is destroyed, no storage outside the chain is touched,
\* and every Handle still dereferences to its value.
C8_DetachFrame ==
    [][\A n \in Nodes, o \in UBOutcomes :
        (Detach(n, o) /\ Linked(n)) =>
            /\ aborted' = ""
            /\ uaf' = uaf
            /\ prev_next'[n] = NoCell
            /\ \A m \in Nodes \ {n} : Linked(m)' = Linked(m)
            /\ listLive => Snapshot' = Remove(Snapshot, n)
            /\ strong_count' = strong_count
            /\ destroyed' = destroyed
            /\ alloc' = alloc
            /\ \A m \in Nodes :
                 HandleCount(m) > 0 => deref(Heap', m) = pushed[m]]_vars

\* C9: detach is idempotent: a detach on a node that was already removed
\* from the list (whatever happened in between, its former neighbours
\* removed or freed included) changes no list cell, no node's link fields
\* and no strong_count.
\* Stated as: a step that changes one of these is not a detach on a node
\* already removed from the list.
C9_DetachIdempotent ==
    [][\/ UNCHANGED <<head, listLive, alloc, value, strong_count,
                      prev_next, next, destroyed, uaf, crashed>>
       \/ ~\E n \in Nodes, o \in UBOutcomes :
              /\ ~InSeq(order, n)
              /\ UNCHANGED <<handles, snap, moved, pushed, order>>
              /\ Detach(n, o)]_vars

\* A Handle to a node that was detached, whose former successor has since
\* been freed and whose former predecessor has since been removed: the
\* state a second detach acts on and leaves.
C9_Witness ==
    \E n \in Nodes :
        /\ HandleCount(n) > 0
        /\ ~InSeq(order, n)
        /\ prev_next[n] = NoCell
        /\ next[n] # None
        /\ alloc[next[n]] = "freed"
        /\ \E m \in Nodes : alloc[m] = "freed" /\ next[m] = n

\* C10: upgrade_all() leaves the head cell and every next and prev_next as
\* they were, raises the strong_count of each linked node by exactly 1 (one
\* Handle each) and of no other node, and dropping the returned Vec gives
\* back the state before the call, no value destroyed.
C10_UpgradeAllFrame ==
    [][\A o \in UBOutcomes :
        UpgradeAll(o) =>
            /\ head' = head
            /\ next' = next
            /\ prev_next' = prev_next
            /\ alloc' = alloc
            /\ destroyed' = destroyed
            /\ \A n \in Nodes :
                 strong_count'[n] =
                    strong_count[n] + (IF Linked(n) THEN 1 ELSE 0)
            /\ \A n \in Nodes :
                 Occ(snap', n) = (IF Linked(n) THEN 1 ELSE 0)
            /\ drop_vec(Heap', snap', o) = Heap]_vars

C10_Witness ==
    /\ listLive
    /\ Len(snap) = 3
    /\ \A i \in 1..3 :
         /\ Linked(snap[i])
         /\ strong_count[snap[i]] = 2
         /\ handles[snap[i]] = 1

\* C11: take_all() returns the Handles upgrade_all() would return in that
\* state and leaves the list empty: upgrade_all() then returns nothing,
\* every node that was linked is Unlinked, no value is destroyed, and each
\* returned Handle dereferences to its original value.
C11_TakeAllEmpties ==
    [][\A o \in UBOutcomes :
        TakeAll(o) =>
            /\ snap' = Snapshot
            /\ Snapshot' = <<>>
            /\ head' = None
            /\ \A n \in Nodes : Linked(n) => prev_next'[n] = NoCell
            /\ \A n \in Nodes : ~Linked(n)'
            /\ destroyed' = destroyed
            /\ alloc' = alloc
            /\ \A i \in DOMAIN snap' :
                 deref(Heap', snap'[i]) = pushed[snap'[i]]]_vars

C11_Witness ==
    /\ listLive
    /\ head = None
    /\ Len(snap) = 3
    /\ \A i \in 1..3 :
         /\ alloc[snap[i]] = "live"
         /\ prev_next[snap[i]] = NoCell
         /\ strong_count[snap[i]] = 2
         /\ deref(Heap, snap[i]) = pushed[snap[i]]

\* C12: clear() never causes the drop of any value: after it the list is
\* empty, the live values are the same as before and every strong_count is
\* the same as before.
C12_ClearDropsNothing ==
    [][\A o \in UBOutcomes :
        (UNCHANGED <<handles, snap, moved, pushed>> /\ Clear(o)) =>
            /\ Snapshot' = <<>>
            /\ head' = None
            /\ \A n \in Nodes : ~Linked(n)'
            /\ alloc' = alloc
            /\ destroyed' = destroyed
            /\ strong_count' = strong_count
            /\ \A n \in Nodes : deref(Heap', n) = deref(Heap, n)]_vars

\* Three values, each held by one Handle, in a live list that was cleared.
C12_Witness ==
    /\ listLive
    /\ head = None
    /\ snap = <<>>
    /\ \A n \in Nodes :
         /\ alloc[n] = "live"
         /\ prev_next[n] = NoCell
         /\ strong_count[n] = 1
         /\ destroyed[n] = 0

\* C13: list.new_elem(value) with the Handle dropped at once changes
\* nothing of the list: the head cell, the order of the linked nodes, next
\* and prev_next of every node that existed before and every strong_count
\* that existed before are as they were, and the pushed value is destroyed
\* exactly once.
C13_DiscardedPushNoOp ==
    [][\A o \in UBOutcomes :
        NewElemDiscard(o) =>
            LET n == CHOOSE m \in Unused : \A k \in Unused : m <= k
            IN  /\ head' = head
                /\ Snapshot' = Snapshot
                /\ \A m \in Nodes \ {n} :
                     /\ next'[m] = next[m]
                     /\ prev_next'[m] = prev_next[m]
                     /\ strong_count'[m] = strong_count[m]
                     /\ alloc'[m] = alloc[m]
                     /\ destroyed'[m] = destroyed[m]
                /\ alloc'[n] = "freed"
                /\ destroyed'[n] = 1
                /\ prev_next'[n] = NoCell]_vars

\* The third push was discarded while the first two nodes are linked.
C13_Witness ==
    /\ listLive
    /\ Snapshot = <<2, 1>>
    /\ alloc[3] = "freed"
    /\ destroyed[3] = 1
    /\ pushed[3] = 3
    /\ prev_next[2] = HeadCell
    /\ prev_next[1] = 2

\* C14: in every state between operations the number of live Handles of a
\* live node (those the caller holds and those in a returned Vec) equals
\* its strong_count, and a node is freed exactly when that number is zero.
\* A state in which an operation was cut short by an abort is not a state
\* between operations: no Handle is used after it.
C14_CountIsHandles ==
    ~crashed =>
        \A n \in Nodes :
            /\ alloc[n] = "live" => HandleCount(n) = strong_count[n]
            /\ alloc[n] # "unused" =>
                 (alloc[n] = "freed" <=> HandleCount(n) = 0)

\* One node is shared by a Handle of the caller and one in a snapshot, and
\* another node lost its last Handle.
C14_Witness ==
    /\ ~crashed
    /\ \E n \in Nodes :
         /\ alloc[n] = "live"
         /\ handles[n] = 1
         /\ Occ(snap, n) = 1
         /\ strong_count[n] = 2
    /\ \E n \in Nodes :
         /\ alloc[n] = "freed"
         /\ HandleCount(n) = 0

\* C15: in every reachable state of a live list the chain from the head is
\* finite, without a cycle and without a duplicate, it holds exactly the
\* nodes whose prev_next is set, the first node's prev_next names the head
\* cell and every other chain node's prev_next names the next cell of its
\* predecessor in the chain.
C15_ChainWellFormed ==
    listLive =>
        LET r == upgrade_all(Heap, "lands")
            c == r.v
        IN  /\ ~r.heap.crashed
            /\ (c = <<>>) <=> (head = None)
            /\ \A i, j \in DOMAIN c : c[i] = c[j] => i = j
            /\ {c[i] : i \in DOMAIN c} = {n \in Nodes : prev_next[n] # NoCell}
            /\ c # <<>> => (head = c[1] /\ prev_next[c[1]] = HeadCell)
            /\ \A i \in DOMAIN c :
                 i > 1 => (next[c[i - 1]] = c[i] /\ prev_next[c[i]] = c[i - 1])
            /\ c # <<>> => next[c[Len(c)]] = None

\* A live list of three nodes beside nothing else.
C15_Witness ==
    /\ listLive
    /\ ~crashed
    /\ Snapshot = <<3, 2, 1>>
    /\ prev_next = <<2, 3, HeadCell>>

\* C16: every node in the chain of a list is not freed and has
\* strong_count >= 1, so upgrade_all, take_all and clear never touch the
\* storage of a freed node.
C16_ChainNodesLive ==
    LET c == Snapshot
    IN  /\ \A i \in DOMAIN c :
             /\ alloc[c[i]] = "live"
             /\ strong_count[c[i]] >= 1
             /\ HandleCount(c[i]) >= 1
        /\ (listLive /\ ~crashed) =>
             \A o \in UBOutcomes :
                 /\ upgrade_all(Heap, o).heap.uaf = uaf
                 /\ take_all(Heap, o).heap.uaf = uaf
                 /\ clear(Heap, o).uaf = uaf

\* Two nodes are in the chain of a live list and a third one, pushed
\* between them, is freed.
C16_Witness ==
    /\ listLive
    /\ ~crashed
    /\ Snapshot = <<3, 1>>
    /\ alloc[2] = "freed"
    /\ strong_count[3] >= 1
    /\ strong_count[1] >= 1

\* C17: the link state of a node only moves forward.  A node is Linked when
\* new_elem creates it; an operation that takes it out of the list (detach,
\* take_all, clear, try_unwrap, the last drop) leaves it Unlinked; once
\* Unlinked no later operation links it again; once Freed it is never live
\* again.
C17_LinkStateMonotonic ==
    [][\A n \in Nodes :
        /\ (alloc[n] = "unused" /\ alloc'[n] = "live") => Linked(n)'
        /\ (InSeq(order, n) /\ ~InSeq(order', n)) => ~Linked(n)'
        /\ (alloc[n] # "unused" /\ prev_next[n] = NoCell) =>
             prev_next'[n] = NoCell
        /\ alloc[n] = "freed" => alloc'[n] = "freed"]_vars

\* Node 1 was taken out of the list and is live and Unlinked beside a freed
\* node and a Linked one.
C17_Witness ==
    /\ listLive
    /\ ~crashed
    /\ alloc[1] = "live"
    /\ prev_next[1] = NoCell
    /\ ~InSeq(order, 1)
    /\ alloc[2] = "freed"
    /\ Snapshot = <<3>>

C19_NoUseAfterFree ==
    listLive =>
        /\ ~uaf
        /\ ~crashed
        /\ \A n \in Nodes :
             Linked(n) =>
                 /\ CellLive(Heap, prev_next[n])
                 /\ next[n] # None => alloc[next[n]] = "live"
                 /\ \A o \in UBOutcomes : ~unlink(Heap, n, o).uaf
        /\ \A n \in Nodes :
             (alloc[n] = "live" /\ ~Linked(n)) =>
                 /\ ~InSeq(Snapshot, n)
                 /\ \A o \in UBOutcomes : unlink(Heap, n, o) = Heap

\* With the list alive, an Unlinked live node still names a freed node in
\* its next field while another node is Linked.
C19_Witness ==
    /\ listLive
    /\ ~uaf
    /\ Snapshot # <<>>
    /\ \E n \in Nodes :
         /\ alloc[n] = "live"
         /\ prev_next[n] = NoCell
         /\ next[n] # None
         /\ alloc[next[n]] = "freed"

====
